---- MODULE Spec2Model ----
(***************************************************************************)
(* Model of rust_lifetime_example_code.rs: main and the three helper       *)
(* functions calculate_length, change_string and longest, executed over an *)
(* explicit heap (String buffers), read-only data (string literals), the   *)
(* owning bindings of main, the reference values passed to the helpers and *)
(* the console.                                                            *)
(*                                                                         *)
(* Spec      main, statement by statement (the allocator's choice of       *)
(*           address and push_str's choice of growing in place or moving   *)
(*           the buffer are the only nondeterminism).                      *)
(* SpecFn    the three helpers applied to Strings with arbitrary content.  *)
(* SpecAll   both of the above, side by side.                              *)
(* LiveSpecAll  SpecAll with weak fairness of the thread's next step.      *)
(***************************************************************************)
EXTENDS Integers, Sequences, FiniteSets, TLC

VARIABLES pc, heap, binds, len, r1, frame, ret, borrows, stdout, fault, access

vars == <<pc, heap, binds, len, r1, frame, ret, borrows, stdout, fault, access>>

(* ---------------------------------------------------------------- bounds *)

\* Number of heap addresses the allocator can hand out.
NAddrs == 3

\* Longest content of the Strings the helpers are applied to in SpecFn.
MaxLen == 2

Addrs == 1..NAddrs

(* ------------------------------------------------------- read-only data  *)

\* The string literals of the program, in order of appearance.
rodata == <<"Hello", "Goodbye", ", world!", "Rust", "Language">>

HELLO == 1
GOODBYE == 2
WORLD == 3
RUST == 4
LANGUAGE == 5

(* ---------------------------------------------------------------- values *)

\* The bindings that can own a String: s1..s4 are main's; a and b are the
\* Strings the helpers are applied to in SpecFn.
Names == {"s1", "s2", "s3", "s4", "a", "b"}

Locals == Names \cup {"len", "r1"}

\* A String binding: where it stands (uninit, owned, moved, dropped) and the
\* String struct (buffer pointer and length).
Unbound == [st |-> "uninit", ptr |-> 0, len |-> 0]

\* The scope a binding is declared in: 1 is a function body, 2 is the inner
\* block of main; 0 stands for 'static.
Depth(n) == IF n = "static" THEN 0 ELSE IF n = "s4" THEN 2 ELSE 1

\* A &str: segment, address, length, and the binding whose scope bounds its
\* lifetime ("static" for a literal).
NullRef == [seg |-> "none", addr |-> 0, len |-> 0, lt |-> "none"]

NoFrame == [fn |-> "none", s |-> "none", a |-> NullRef, b |-> NullRef, retpc |-> "none"]

NoRet == [fn |-> "none", n |-> 0, ref |-> NullRef]

FreeCell == [live |-> FALSE, data |-> ""]

\* The content of the String owned by binding n.
Content(n) ==
    IF binds[n].ptr \in Addrs
    THEN SubSeq(heap[binds[n].ptr].data, 1, binds[n].len)
    ELSE ""

\* Binding n owns a live buffer: it may be read, borrowed or moved from.
Usable(n) ==
    /\ binds[n].st = "owned"
    /\ binds[n].ptr \in Addrs
    /\ heap[binds[n].ptr].live

\* The value a reference points to is alive.
Live(r) ==
    \/ r.seg = "static"
    \/ r.seg = "heap" /\ r.addr \in Addrs /\ heap[r.addr].live

\* The lifetime of a reference has not ended: the scope bounding it is open.
Valid(r) ==
    \/ r.lt = "static"
    \/ r.lt \in Names /\ binds[r.lt].st \in {"owned", "moved"}

\* The text a &str denotes.
Deref(r) ==
    IF r.seg = "static" THEN SubSeq(rodata[r.addr], 1, r.len)
    ELSE IF r.seg = "heap" /\ r.addr \in Addrs THEN SubSeq(heap[r.addr].data, 1, r.len)
    ELSE ""

\* &n coerced to &str.
StrRef(n) == [seg |-> "heap", addr |-> binds[n].ptr, len |-> binds[n].len, lt |-> n]

\* A string literal as &'static str.
LitRef(i) == [seg |-> "static", addr |-> i, len |-> Len(rodata[i]), lt |-> "static"]

Rd(acc, n) == [acc EXCEPT ![n].reads = @ + 1]

Wr(acc, n) == [acc EXCEPT ![n].writes = @ + 1]

(* ------------------------------------------------------- the helpers     *)

\* A variant of calculate_length that counts one byte too many.
calculate_length_OffByOne(s) == Len(s) + 1

\* fn calculate_length(s: &String) -> usize { s.len() }
calculate_length(s) == Len(s)

\* A variant of change_string whose appended text lacks the comma.
change_string_NoComma(s) == s \o " world!"

\* fn change_string(s: &mut String) { s.push_str(", world!") }
change_string(s) == s \o rodata[WORLD]

\* A variant of longest with >= for >: a tie returns the first argument.
longest_TieFirst(s1, s2) == IF s1.len >= s2.len THEN s1 ELSE s2

\* A variant of longest with < for >: it returns the shorter argument.
longest_Shorter(s1, s2) == IF s1.len < s2.len THEN s1 ELSE s2

\* fn longest<'a>(s1: &'a str, s2: &'a str) -> &'a str
longest(s1, s2) == IF s1.len > s2.len THEN s1 ELSE s2

\* The lifetime 'a of longest's result: the shorter of its arguments'.
LifetimeA(s1, s2) == IF Depth(s1.lt) >= Depth(s2.lt) THEN s1.lt ELSE s2.lt


(* ------------------------------------------------------- memory          *)

\* String::from(text) placed at the free address a.
HeapStore(h, a, text) == [h EXCEPT ![a] = [live |-> TRUE, data |-> text]]

\* The buffer at address a is given back to the allocator.
HeapFree(h, a) == [h EXCEPT ![a] = FreeCell]

NewString(a, text) == [st |-> "owned", ptr |-> a, len |-> Len(text)]

\* A variant of Move that copies the String struct and leaves the source an
\* owner.
Move_AsCopy(b, from, to) == [b EXCEPT ![to] = b[from]]

\* let to = from: the String struct is copied and the source is invalidated.
Move(b, from, to) == [b EXCEPT ![to] = b[from], ![from] = [@ EXCEPT !.st = "moved"]]

\* A variant of NeedsDrop that also drops a binding that was moved from.
NeedsDrop_IgnoresMove(n) == binds[n].st \in {"owned", "moved"}

\* Whether the end of a scope runs the destructor of binding n.
NeedsDrop(n) == binds[n].st = "owned"

\* A variant of GrowTargets that may hand out an address in use.
GrowTargets_Any(n) == Addrs

\* The addresses push_str may leave the grown buffer of binding n at: where
\* it is, or any free address.
GrowTargets(n) == {a \in Addrs : a = binds[n].ptr \/ ~heap[a].live}

\* A variant of EndBorrows in which a borrow outlives the call.
EndBorrows_Keeps(bs, fn) == bs

\* The borrows left when function fn returns.
EndBorrows(bs, fn) == {x \in bs : x.by # fn}

Borrow(n, kind, fn) == [of |-> n, kind |-> kind, by |-> fn]

(* ------------------------------------------------------- console         *)

Digit(d) == SubSeq("0123456789", d + 1, d + 1)

RECURSIVE ToDecimal(_)
\* Display for usize.
ToDecimal(n) == IF n < 10 THEN Digit(n) ELSE ToDecimal(n \div 10) \o Digit(n % 10)

\* println!("The length of '{}' is {}.", s2, len)
Format1(s, n) == "The length of '" \o s \o "' is " \o ToDecimal(n) \o "."

\* A variant of Format2 without the quotes around the argument.
Format2_NoQuotes(s) == "The changed string is " \o s \o "."

\* println!("The changed string is '{}'.", s3)
Format2(s) == "The changed string is '" \o s \o "'."

\* A variant of line 22 that prints s1, as the commented-out line 18 does.
PrintlnLenArg_Moved == "s1"

\* The String binding line 22 prints.
PrintlnLenArg == "s2"

(* ------------------------------------------------------- initial state   *)

Init ==
    /\ pc = "l13"
    /\ heap = [a \in Addrs |-> FreeCell]
    /\ binds = [n \in Names |-> Unbound]
    /\ len = [init |-> FALSE, val |-> 0]
    /\ r1 = [init |-> FALSE, ref |-> NullRef]
    /\ frame = NoFrame
    /\ ret = NoRet
    /\ borrows = {}
    /\ stdout = <<>>
    /\ fault = FALSE
    /\ access = [n \in Locals |-> [reads |-> 0, writes |-> 0]]

(* ------------------------------------------------------- main            *)

\* let s1 = String::from("Hello");
Main_l13 ==
    /\ pc = "l13"
    /\ \E a \in Addrs :
        /\ ~heap[a].live
        /\ heap' = HeapStore(heap, a, rodata[HELLO])
        /\ binds' = [binds EXCEPT !["s1"] = NewString(a, rodata[HELLO])]
    /\ access' = Wr(access, "s1")
    /\ pc' = "l16"
    /\ UNCHANGED <<len, r1, frame, ret, borrows, stdout, fault>>

\* let s2 = s1;
Main_l16 ==
    /\ pc = "l16"
    /\ binds' = Move(binds, "s1", "s2")
    /\ fault' = (fault \/ ~Usable("s1"))
    /\ access' = Wr(Rd(access, "s1"), "s2")
    /\ pc' = "l21"
    /\ UNCHANGED <<heap, len, r1, frame, ret, borrows, stdout>>

\* calculate_length(&s2): the call.
Main_l21 ==
    /\ pc = "l21"
    /\ frame' = [fn |-> "calculate_length", s |-> "s2", a |-> NullRef, b |-> NullRef,
                 retpc |-> "l21r"]
    /\ borrows' = borrows \cup {Borrow("s2", "shared", "calculate_length")}
    /\ fault' = (fault \/ ~Usable("s2"))
    /\ access' = Rd(access, "s2")
    /\ pc' = "l41"
    /\ UNCHANGED <<heap, binds, len, r1, ret, stdout>>

\* let len = <the value returned>;
Main_l21r ==
    /\ pc = "l21r"
    /\ len' = [init |-> TRUE, val |-> ret.n]
    /\ access' = Wr(access, "len")
    /\ pc' = "l22"
    /\ UNCHANGED <<heap, binds, r1, frame, ret, borrows, stdout, fault>>

\* println!("The length of '{}' is {}.", s2, len);
Main_l22 ==
    /\ pc = "l22"
    /\ stdout' = Append(stdout, Format1(Content(PrintlnLenArg), len.val))
    /\ fault' = (fault \/ ~Usable(PrintlnLenArg) \/ ~len.init)
    /\ access' = Rd(Rd(access, PrintlnLenArg), "len")
    /\ pc' = "l25"
    /\ UNCHANGED <<heap, binds, len, r1, frame, ret, borrows>>

\* let mut s3 = String::from("Goodbye");
Main_l25 ==
    /\ pc = "l25"
    /\ \E a \in Addrs :
        /\ ~heap[a].live
        /\ heap' = HeapStore(heap, a, rodata[GOODBYE])
        /\ binds' = [binds EXCEPT !["s3"] = NewString(a, rodata[GOODBYE])]
    /\ access' = Wr(access, "s3")
    /\ pc' = "l26"
    /\ UNCHANGED <<len, r1, frame, ret, borrows, stdout, fault>>

\* change_string(&mut s3): the call.
Main_l26 ==
    /\ pc = "l26"
    /\ frame' = [fn |-> "change_string", s |-> "s3", a |-> NullRef, b |-> NullRef,
                 retpc |-> "l27"]
    /\ borrows' = borrows \cup {Borrow("s3", "mut", "change_string")}
    /\ fault' = (fault \/ ~Usable("s3"))
    /\ access' = Rd(access, "s3")
    /\ pc' = "l46"
    /\ UNCHANGED <<heap, binds, len, r1, ret, stdout>>

\* println!("The changed string is '{}'.", s3);
Main_l27 ==
    /\ pc = "l27"
    /\ stdout' = Append(stdout, Format2(Content("s3")))
    /\ fault' = (fault \/ ~Usable("s3"))
    /\ access' = Rd(access, "s3")
    /\ pc' = "l32"
    /\ UNCHANGED <<heap, binds, len, r1, frame, ret, borrows>>

\* let r1; { let s4 = String::from("Rust");
Main_l32 ==
    /\ pc = "l32"
    /\ \E a \in Addrs :
        /\ ~heap[a].live
        /\ heap' = HeapStore(heap, a, rodata[RUST])
        /\ binds' = [binds EXCEPT !["s4"] = NewString(a, rodata[RUST])]
    /\ access' = Wr(access, "s4")
    /\ pc' = "l33"
    /\ UNCHANGED <<len, r1, frame, ret, borrows, stdout, fault>>

\* longest(&s4, "Language"): the call.
Main_l33 ==
    /\ pc = "l33"
    /\ frame' = [fn |-> "longest", s |-> "none", a |-> StrRef("s4"), b |-> LitRef(LANGUAGE),
                 retpc |-> "l33r"]
    /\ borrows' = borrows \cup {Borrow("s4", "shared", "longest")}
    /\ fault' = (fault \/ ~Usable("s4"))
    /\ access' = Rd(access, "s4")
    /\ pc' = "l52"
    /\ UNCHANGED <<heap, binds, len, r1, ret, stdout>>

\* r1 = <the value returned>;
Main_l33r ==
    /\ pc = "l33r"
    /\ r1' = [init |-> TRUE, ref |-> ret.ref]
    /\ access' = Wr(access, "r1")
    /\ pc' = "l34"
    /\ UNCHANGED <<heap, binds, len, frame, ret, borrows, stdout, fault>>

\* } : the inner block ends and s4 is dropped.
Main_l34 ==
    /\ pc = "l34"
    /\ IF NeedsDrop("s4")
       THEN /\ heap' = HeapFree(heap, binds["s4"].ptr)
            /\ fault' = (fault \/ ~Usable("s4"))
       ELSE UNCHANGED <<heap, fault>>
    /\ binds' = [binds EXCEPT !["s4"] = [@ EXCEPT !.st = "dropped"]]
    /\ pc' = "l37"
    /\ UNCHANGED <<len, r1, frame, ret, borrows, stdout, access>>

\* The String bindings of main's body, in the order its end drops them
\* (the reverse of their declaration).
DropOrder == <<"s3", "s2", "s1">>

\* } : main ends; each step drops the next binding, then main is done.
Main_l37 ==
    /\ pc = "l37"
    /\ LET left == {i \in 1..Len(DropOrder) : binds[DropOrder[i]].st \in {"owned", "moved"}}
       IN IF left = {}
          THEN /\ pc' = "done"
               /\ UNCHANGED <<heap, binds, fault>>
          ELSE LET i == CHOOSE k \in left : \A j \in left : k <= j
                   n == DropOrder[i]
               IN /\ IF NeedsDrop(n)
                     THEN /\ heap' = HeapFree(heap, binds[n].ptr)
                          /\ fault' = (fault \/ ~Usable(n))
                     ELSE UNCHANGED <<heap, fault>>
                  /\ binds' = [binds EXCEPT ![n] = [@ EXCEPT !.st = "dropped"]]
                  /\ pc' = "l37"
    /\ UNCHANGED <<len, r1, frame, ret, borrows, stdout, access>>

(* ------------------------------------------------------- function bodies *)

\* s.len()
Body_l41 ==
    /\ pc = "l41"
    /\ ret' = [fn |-> frame.fn, n |-> calculate_length(Content(frame.s)), ref |-> NullRef]
    /\ fault' = (fault \/ ~Usable(frame.s))
    /\ pc' = "l42"
    /\ UNCHANGED <<heap, binds, len, r1, frame, borrows, stdout, access>>

\* s.push_str(", world!")
Body_l46 ==
    /\ pc = "l46"
    /\ LET n == frame.s
           text == change_string(Content(n))
       IN \E a \in GrowTargets(n) :
            /\ heap' = HeapStore(HeapFree(heap, binds[n].ptr), a, text)
            /\ binds' = [binds EXCEPT ![n] = [@ EXCEPT !.ptr = a, !.len = Len(text)]]
    /\ ret' = [fn |-> frame.fn, n |-> 0, ref |-> NullRef]
    /\ fault' = (fault \/ ~Usable(frame.s))
    /\ pc' = "l47"
    /\ UNCHANGED <<len, r1, frame, borrows, stdout, access>>

\* if s1.len() > s2.len() { s1 } else { s2 }
Body_l52 ==
    /\ pc = "l52"
    /\ ret' = [fn |-> frame.fn, n |-> 0,
               ref |-> [longest(frame.a, frame.b) EXCEPT !.lt = LifetimeA(frame.a, frame.b)]]
    /\ pc' = "l57"
    /\ UNCHANGED <<heap, binds, len, r1, frame, borrows, stdout, fault, access>>

\* The closing brace of a helper: its frame is popped, the borrows made for
\* the call end, and control returns to the caller.
Return ==
    /\ pc \in {"l42", "l47", "l57"}
    /\ pc' = frame.retpc
    /\ borrows' = EndBorrows(borrows, frame.fn)
    /\ frame' = NoFrame
    /\ UNCHANGED <<heap, binds, len, r1, ret, stdout, fault, access>>

Next ==
    \/ Main_l13
    \/ Main_l16
    \/ Main_l21
    \/ Main_l21r
    \/ Main_l22
    \/ Main_l25
    \/ Main_l26
    \/ Main_l27
    \/ Main_l32
    \/ Main_l33
    \/ Main_l33r
    \/ Main_l34
    \/ Main_l37
    \/ Body_l41
    \/ Body_l46
    \/ Body_l52
    \/ Return

Spec == Init /\ [][Next]_vars


(* ------------------------------------------------------- the helpers on  *)
(* ------------------------------------------------------- arbitrary input *)

Alphabet == {"x", "y"}

RECURSIVE StringsOfLen(_)
StringsOfLen(n) ==
    IF n = 0 THEN {""} ELSE {s \o c : s \in StringsOfLen(n - 1), c \in Alphabet}

\* The contents the helpers are tried on: every string over Alphabet of at
\* most MaxLen characters, and the texts main applies them to.
Inputs ==
    UNION {StringsOfLen(n) : n \in 0..MaxLen}
        \cup {rodata[HELLO], rodata[GOODBYE], rodata[RUST], rodata[LANGUAGE]}

\* Two Strings a and b with arbitrary content, each owned and alive.
InitFn ==
    /\ pc = "test"
    /\ \E x \in Inputs, y \in Inputs :
        /\ heap = [i \in Addrs |-> IF i = 1 THEN [live |-> TRUE, data |-> x]
                                   ELSE IF i = 2 THEN [live |-> TRUE, data |-> y]
                                   ELSE FreeCell]
        /\ binds = [n \in Names |-> IF n = "a" THEN NewString(1, x)
                                    ELSE IF n = "b" THEN NewString(2, y)
                                    ELSE Unbound]
    /\ len = [init |-> FALSE, val |-> 0]
    /\ r1 = [init |-> FALSE, ref |-> NullRef]
    /\ frame = NoFrame
    /\ ret = NoRet
    /\ borrows = {}
    /\ stdout = <<>>
    /\ fault = FALSE
    /\ access = [n \in Locals |-> [reads |-> 0, writes |-> 0]]

\* calculate_length(&a)
Test_calculate_length ==
    /\ pc = "test"
    /\ frame' = [fn |-> "calculate_length", s |-> "a", a |-> NullRef, b |-> NullRef,
                 retpc |-> "tdone"]
    /\ borrows' = borrows \cup {Borrow("a", "shared", "calculate_length")}
    /\ fault' = (fault \/ ~Usable("a"))
    /\ access' = Rd(access, "a")
    /\ pc' = "l41"
    /\ UNCHANGED <<heap, binds, len, r1, ret, stdout>>

\* change_string(&mut a)
Test_change_string ==
    /\ pc = "test"
    /\ frame' = [fn |-> "change_string", s |-> "a", a |-> NullRef, b |-> NullRef,
                 retpc |-> "tdone"]
    /\ borrows' = borrows \cup {Borrow("a", "mut", "change_string")}
    /\ fault' = (fault \/ ~Usable("a"))
    /\ access' = Rd(access, "a")
    /\ pc' = "l46"
    /\ UNCHANGED <<heap, binds, len, r1, ret, stdout>>

\* longest(&a, &b)
Test_longest ==
    /\ pc = "test"
    /\ frame' = [fn |-> "longest", s |-> "none", a |-> StrRef("a"), b |-> StrRef("b"),
                 retpc |-> "tdone"]
    /\ borrows' = borrows \cup {Borrow("a", "shared", "longest"), Borrow("b", "shared", "longest")}
    /\ fault' = (fault \/ ~Usable("a") \/ ~Usable("b"))
    /\ access' = Rd(Rd(access, "a"), "b")
    /\ pc' = "l52"
    /\ UNCHANGED <<heap, binds, len, r1, ret, stdout>>

NextFn ==
    \/ Test_calculate_length
    \/ Test_change_string
    \/ Test_longest
    \/ Body_l41
    \/ Body_l46
    \/ Body_l52
    \/ Return

SpecFn == InitFn /\ [][NextFn]_vars


\* main and the helpers on arbitrary input, side by side.
InitAll == Init \/ InitFn

NextAll == Next \/ NextFn

SpecAll == InitAll /\ [][NextAll]_vars

\* Every run is one sequential thread: a step that can be taken is taken.
LiveSpecAll == SpecAll /\ WF_vars(NextAll)

(* ======================================================= properties      *)

\* r and q are the same string slice (same place, same length).
SameStr(r, q) == r.seg = q.seg /\ r.addr = q.addr /\ r.len = q.len

\* C1: longest(a, b) returns a when a is strictly longer than b and b
\* otherwise, so a tie returns the second argument; and
\* longest("Rust", "Language") is "Language".
C1_LongestSelects ==
    pc = "l57" =>
        LET la == Len(Deref(frame.a))
            lb == Len(Deref(frame.b))
        IN /\ la > lb => SameStr(ret.ref, frame.a)
           /\ la <= lb => SameStr(ret.ref, frame.b)
           /\ la = lb => ret.ref.addr = frame.b.addr /\ ret.ref.addr # frame.a.addr
           /\ (Deref(frame.a) = "Rust" /\ Deref(frame.b) = "Language")
                => Deref(ret.ref) = "Language"

\* longest has returned from a tie between two different, non-empty Strings.
C1_Witness ==
    /\ pc = "l57"
    /\ Deref(frame.a) = "xy"
    /\ Deref(frame.b) = "yx"
    /\ Deref(ret.ref) = "yx"

\* C2: change_string leaves the String it borrowed exclusively equal to its
\* previous content followed by exactly ", world!": the old content is an
\* unchanged prefix and the length grows by 8; "Goodbye" becomes
\* "Goodbye, world!".
C2_ChangeStringAppends ==
    [][pc = "l46" =>
        LET old == Content(frame.s)
            new == Content(frame.s)'
        IN /\ new = old \o ", world!"
           /\ Len(new) = Len(old) + 8
           /\ SubSeq(new, 1, Len(old)) = old
           /\ SubSeq(new, Len(old) + 1, Len(new)) = ", world!"
           /\ old = "Goodbye" => new = "Goodbye, world!"]_vars

\* change_string has run on "Goodbye".
C2_Witness ==
    /\ pc = "l47"
    /\ frame.fn = "change_string"
    /\ Content(frame.s) = "Goodbye, world!"

\* C3: calculate_length(&s) returns the length of s; the length of "Hello"
\* is 5.
C3_CalculateLengthIsLen ==
    pc = "l42" =>
        LET text == heap[binds[frame.s].ptr].data
        IN /\ ret.n = Len(text)
           /\ text = "Hello" => ret.n = 5

\* calculate_length has run on "Hello".
C3_Witness ==
    /\ pc = "l42"
    /\ frame.fn = "calculate_length"
    /\ Content(frame.s) = "Hello"
    /\ ret.n = 5

Line1 == "The length of 'Hello' is 5."

Line2 == "The changed string is 'Goodbye, world!'."

\* C4: a complete run of main writes exactly the two lines
\* "The length of 'Hello' is 5." and
\* "The changed string is 'Goodbye, world!'.", in this order, with nothing
\* before, between or after them; the call to longest and the end of the
\* inner scope write nothing.
C4_TwoLines ==
    /\ stdout \in {<<>>, <<Line1>>, <<Line1, Line2>>}
    /\ pc \in {"l13", "l16", "l21", "l41", "l42", "l21r", "l22"} => stdout = <<>>
    /\ pc \in {"l25", "l26", "l46", "l47", "l27"} => stdout = <<Line1>>
    /\ pc \in {"l32", "l33", "l52", "l57", "l33r", "l34", "l37", "done"}
         => stdout = <<Line1, Line2>>

\* main has ended with both lines written.
C4_Witness ==
    /\ pc = "done"
    /\ Len(stdout) = 2
    /\ stdout[1] = Line1
    /\ stdout[2] = Line2

\* C5: the only mutation a helper performs is change_string's append to the
\* String it borrowed exclusively: calculate_length, longest and the returns
\* change no String and write nothing, and change_string changes no String
\* but its own (s2 = "Hello" stays as it is while s3 is changed).
C5_OnlyChangeStringMutates ==
    [][/\ pc \in {"l41", "l42", "l52", "l57", "l47"} =>
            /\ heap' = heap
            /\ binds' = binds
            /\ stdout' = stdout
       /\ pc = "l46" =>
            /\ Borrow(frame.s, "mut", "change_string") \in borrows
            /\ stdout' = stdout
            /\ \A n \in Names \ {frame.s} :
                /\ binds'[n] = binds[n]
                /\ Usable(n) => Usable(n)' /\ Content(n)' = Content(n)
            /\ \A a \in Addrs :
                (heap[a].live /\ a # binds[frame.s].ptr) => heap'[a] = heap[a]]_vars

\* change_string has changed s3 while s2 owns "Hello".
C5_Witness ==
    /\ pc = "l47"
    /\ frame.s = "s3"
    /\ Content("s3") = "Goodbye, world!"
    /\ Usable("s2")
    /\ Content("s2") = "Hello"

\* C6: every run is a single thread that runs to completion without ever
\* entering an error state: main reaches its end, and each helper returns
\* for every input.
C6_RunsToCompletion ==
    /\ <>(pc \in {"done", "tdone"})
    /\ [](~fault)
    /\ [](frame.fn # "none" => <>(frame.fn = "none"))

\* main has reached its end without a fault, every String given back.
C6_Witness ==
    /\ pc = "done"
    /\ ~fault
    /\ \A a \in Addrs : ~heap[a].live
    /\ frame = NoFrame

\* The bindings that own the buffer at address a.
Owners(a) == {n \in Names : binds[n].st = "owned" /\ binds[n].ptr = a}

\* C7: every live String has exactly one owning binding; after
\* let s2 = s1, s2 is the sole owner of "Hello" and s1 owns nothing and is
\* not used again; a borrow for a call never takes ownership from s2, s3
\* or s4.
C7_SingleOwner ==
    /\ \A a \in Addrs : heap[a].live => Cardinality(Owners(a)) = 1
    /\ \A n \in Names : binds[n].st = "owned" => heap[binds[n].ptr].live
    /\ pc \notin {"l13", "l16"} =>
        /\ binds["s1"].st \in {"moved", "dropped"}
        /\ access["s1"].reads = 1
        /\ binds["s2"].st = "owned" =>
             Content("s2") = "Hello" /\ Owners(binds["s2"].ptr) = {"s2"}
    /\ \A x \in borrows : binds[x.of].st = "owned"
    /\ pc \in {"l41", "l42", "l21r", "l22"} => binds["s2"].st = "owned"
    /\ pc \in {"l46", "l47", "l27"} => binds["s3"].st = "owned"
    /\ pc \in {"l52", "l57", "l33r", "l34"} => binds["s4"].st = "owned"

\* After the move, calculate_length holds a borrow of s2.
C7_Witness ==
    /\ pc = "l42"
    /\ binds["s1"].st = "moved"
    /\ Owners(binds["s1"].ptr) = {"s2"}
    /\ Borrow("s2", "shared", "calculate_length") \in borrows

\* C8 as stated: once the inner block has ended and s4 is dropped, r1 no
\* longer refers to a live value.
C8_R1RefersToDeadValue ==
    (pc \in {"l37", "done"} /\ r1.init) => ~Live(r1.ref)

\* C8, amended: once the inner block has ended and s4 is dropped, the
\* lifetime of r1 (that of &s4, by longest's signature) has ended and the
\* buffer of s4 is gone, but the value r1 holds is longest's second
\* argument, the literal "Language", which is still alive.
C8_R1LifetimeEndedValueLive ==
    pc \in {"l37", "done"} =>
        /\ r1.init
        /\ r1.ref.lt = "s4"
        /\ ~Valid(r1.ref)
        /\ binds["s4"].st = "dropped"
        /\ ~heap[binds["s4"].ptr].live
        /\ SameStr(r1.ref, LitRef(LANGUAGE))
        /\ Live(r1.ref)
        /\ Deref(r1.ref) = "Language"

\* The inner block has ended with r1 assigned.
C8_Witness ==
    /\ pc = "l37"
    /\ r1.init
    /\ binds["s4"].st = "dropped"
    /\ binds["s3"].st = "owned"

BorrowsOf(n, kind) == {x \in borrows : x.of = n /\ x.kind = kind}

\* C9: a String has any number of shared borrows or at most one exclusive
\* borrow, never both; while change_string holds the exclusive borrow of s3
\* there is no other reference to s3; the borrow taken for a call has ended
\* before the println that follows uses the owner.
C9_SharedXorExclusive ==
    /\ \A n \in Names :
        /\ Cardinality(BorrowsOf(n, "mut")) <= 1
        /\ BorrowsOf(n, "mut") # {} => BorrowsOf(n, "shared") = {}
    /\ pc \in {"l46", "l47"} =>
        {x \in borrows : x.of = "s3"} = {Borrow("s3", "mut", "change_string")}
    /\ pc = "l22" => {x \in borrows : x.of = "s2"} = {}
    /\ pc = "l27" => {x \in borrows : x.of = "s3"} = {}
    /\ frame.fn = "none" => borrows = {}

\* change_string holds the exclusive borrow of s3.
C9_Witness ==
    /\ pc = "l46"
    /\ frame.fn = "change_string"
    /\ BorrowsOf("s3", "mut") # {}
    /\ Usable("s2")

\* C10: main never uses a binding or a reference that has become invalid:
\* s1 is not read after the move, nothing reads a reference to s4 after s4
\* is dropped, r1 is assigned once and never read, and what the two
\* println calls read (s2, len, s3) is alive and owned when it is read.
C10_NoUseAfterInvalid ==
    /\ ~fault
    /\ binds["s1"].st \in {"moved", "dropped"} => access["s1"].reads = 1
    /\ binds["s4"].st = "dropped" => access["s4"].reads = 1 /\ frame.fn = "none"
    /\ access["r1"].reads = 0
    /\ access["r1"].writes = (IF r1.init THEN 1 ELSE 0)
    /\ pc \in {"l34", "l37", "done"} => r1.init
    /\ pc = "l22" => Usable("s2") /\ len.init
    /\ pc = "l27" => Usable("s3")
    /\ pc = "l25" => access["s2"].reads = 2 /\ access["len"].reads = 1
    /\ pc = "l32" => access["s3"].reads = 2

\* Both println calls have read their arguments and s4 has been dropped.
C10_Witness ==
    /\ pc = "l37"
    /\ access["s2"].reads = 2
    /\ access["s3"].reads = 2
    /\ access["r1"].writes = 1
    /\ ~fault

====
